---- MODULE Spec2Model ----
(***************************************************************************)
(* Model of core/services/offchainreporting/oracle.go:                     *)
(*   - jobSpawnerDelegate.ServicesForSpec ("build"), stepped statement by  *)
(*     statement, every early return included;                             *)
(*   - dataSource.Observe ("observe"), stepped call by call against the    *)
(*     pipeline runner, with several callers in flight.                    *)
(* Collaborators whose code is outside the file (orm.Config getters, the   *)
(* pipeline runner, the libocr constructors) are modelled at their         *)
(* interface: a getter by its override rule, a constructor by a            *)
(* nondeterministic success/failure at the call.                           *)
(***************************************************************************)
EXTENDS Integers, Sequences, FiniteSets, TLC

\* ------------------------------------------------------------------ bounds
MaxOverride == 2        \* job-level timing overrides are drawn from 0..MaxOverride
MaxBootstrapPeers == 1  \* longest bootstrap peer list in a job spec
MaxRuns == 2            \* pipeline runs the engine accepts in one behaviour
MaxResults == 2         \* longest result set of a finished run

\* ------------------------------------------------------------ value domains
NoURL == [Scheme |-> "", Host |-> ""]   \* a nil *url.URL

\* The seven tunables of ocrtypes.LocalConfig, by their field names.
Tunables ==
    {"BlockchainTimeout", "ContractConfigConfirmations",
     "ContractConfigTrackerPollInterval", "ContractConfigTrackerSubscribeInterval",
     "ContractTransmitterTransmitTimeout", "DatabaseTimeout", "DataSourceTimeout"}

\* The tunables whose job-level value ServicesForSpec hands to the getter.
\* DataSourceTimeout is read from the job's ObservationTimeout field.
PassedOverrides ==
    {"BlockchainTimeout", "ContractConfigConfirmations",
     "ContractConfigTrackerPollInterval", "ContractConfigTrackerSubscribeInterval",
     "DataSourceTimeout"}

BoundedSeq(S, n) == UNION {[1..k -> S] : k \in 0..n}

PeerIDs == {"p1", "p2"}

\* Strings a job can give as its monitoring endpoint: none, one that url.Parse
\* accepts, one that it rejects (an invalid escape).
EndpointStrings == {"", "wss://job.example/ocr", "%zz"}

\* Node-wide timing defaults: a sane profile, one whose tracker poll interval is
\* zero, one whose transmit timeout exceeds its blockchain timeout, one whose
\* database timeout is above the sanity ceiling.
SaneDefaults ==
    [OCRBlockchainTimeout |-> 1, OCRContractConfirmations |-> 1,
     OCRContractPollInterval |-> 1, OCRContractSubscribeInterval |-> 1,
     OCRContractTransmitterTransmitTimeout |-> 1, OCRDatabaseTimeout |-> 1,
     OCRObservationTimeout |-> 1]

ZeroPollDefaults == [SaneDefaults EXCEPT !.OCRContractPollInterval = 0]

TimingDefaults ==
    {SaneDefaults, ZeroPollDefaults,
     [SaneDefaults EXCEPT !.OCRContractTransmitterTransmitTimeout = 2],
     [SaneDefaults EXCEPT !.OCRDatabaseTimeout = 3]}

NoLC ==
    [BlockchainTimeout |-> 0, ContractConfigConfirmations |-> 0,
     ContractConfigTrackerPollInterval |-> 0,
     ContractConfigTrackerSubscribeInterval |-> 0,
     ContractTransmitterTransmitTimeout |-> 0, DatabaseTimeout |-> 0,
     DataSourceTimeout |-> 0]

VARIABLES
    \* ---- ServicesForSpec: its argument and the delegate's fields
    spec,           \* the job.Spec handed to ServicesForSpec
    config,         \* d.config, the node-wide configuration
    peerWrapper,    \* d.peerWrapper
    keyStore,       \* d.keyStore: the key bundle IDs it can decrypt
    \* ---- ServicesForSpec: its locals and results
    pc,             \* the statement ServicesForSpec is at
    services,       \* the named result `services`
    err,            \* the named result `err` ("" is nil)
    peerID, bootstrapPeers, endpointURL, monitoringEndpoint, lc,
    calls           \* the constructors and collaborators called so far

buildVars ==
    <<spec, config, peerWrapper, keyStore, pc, services, err, peerID,
      bootstrapPeers, endpointURL, monitoringEndpoint, lc, calls>>

VARIABLES
    \* ---- the pipeline engine
    runs,           \* run ID -> "none", "running", "success" or "error"
    harvested,      \* the run IDs ResultsForRun has been called for
    abandoned,      \* the run IDs whose AwaitRun ended on the caller's context
    \* ---- one Observe call per caller: its context, position, locals, results
    ctx,            \* the caller's context: "live" or "done"
    expiredAtCall,  \* the context was done when Observe was called
    doneFirst,      \* the context was done before the run was terminal
    opc,            \* the statement Observe is at
    runID,          \* the local runID (0 before CreateRun returns)
    results,        \* the local results
    observation,    \* the returned ocrtypes.Observation
    oerr,           \* the returned error ("" is nil)
    protocol,       \* the calls Observe has made on the pipeline runner
    previous        \* while a call runs: the error the caller's call before
                    \* it returned ("" when there was none or it succeeded)

observeVars ==
    <<runs, harvested, abandoned, ctx, expiredAtCall, doneFirst, opc, runID,
      results, observation, oerr, protocol, previous>>

vars == <<buildVars, observeVars>>

\* ------------------------------------------------- orm.Config getters
\* A getter with an override argument returns the job's value when the job
\* gives one and the node-wide default otherwise.  The job's fields are Go
\* values, so "no override" is the zero value: 0, "" or the empty list.
OCRBlockchainTimeout(c, override) ==
    IF override # 0 THEN override ELSE c.OCRBlockchainTimeout
OCRContractConfirmations(c, override) ==
    IF override # 0 THEN override ELSE c.OCRContractConfirmations
OCRContractPollInterval(c, override) ==
    IF override # 0 THEN override ELSE c.OCRContractPollInterval
OCRContractSubscribeInterval(c, override) ==
    IF override # 0 THEN override ELSE c.OCRContractSubscribeInterval
OCRObservationTimeout(c, override) ==
    IF override # 0 THEN override ELSE c.OCRObservationTimeout
\* The two getters without an argument: the node-wide value.
OCRContractTransmitterTransmitTimeout(c) == c.OCRContractTransmitterTransmitTimeout
OCRDatabaseTimeout(c) == c.OCRDatabaseTimeout

\* P2PPeerID(override): (peerID, err); err when neither the job nor the node
\* names a peer.
P2PPeerID(c, override) ==
    IF override # "" THEN [val |-> override, ok |-> TRUE]
    ELSE IF c.P2PPeerID # "" THEN [val |-> c.P2PPeerID, ok |-> TRUE]
    ELSE [val |-> "", ok |-> FALSE]

\* P2PBootstrapPeers(override): (peers, err); err when an address of the list
\* in force does not parse.
ValidPeerAddr(a) == a # "!bad"
P2PBootstrapPeers(c, override) ==
    LET l == IF override # <<>> THEN override ELSE c.P2PBootstrapPeers
    IN  IF \A i \in 1..Len(l) : ValidPeerAddr(l[i])
        THEN [val |-> l, ok |-> TRUE]
        ELSE [val |-> <<>>, ok |-> FALSE]

\* OCRMonitoringEndpoint(override): the job's endpoint string.
OCRMonitoringEndpoint(c, override) == override

ExplorerURL(c) == c.ExplorerURL

\* OCRKeyBundleID(override): (id, err); err when no bundle is named.
OCRKeyBundleID(c, override) ==
    IF override # "" THEN [val |-> override, ok |-> TRUE]
    ELSE [val |-> "", ok |-> FALSE]

\* OCRTransmitterAddress(override): (address, err); err when none is named.
OCRTransmitterAddress(c, override) ==
    IF override # "" THEN [val |-> override, ok |-> TRUE]
    ELSE [val |-> "", ok |-> FALSE]

\* url.Parse: the URL's parts, or an error on an invalid escape.
UrlParse(s) ==
    IF s = "wss://job.example/ocr"
    THEN [url |-> [Scheme |-> "wss", Host |-> "job.example"], ok |-> TRUE]
    ELSE [url |-> NoURL, ok |-> FALSE]

\* ocr.SanityCheckLocalConfig: every duration positive and at most the sanity
\* ceiling, at least one confirmation, and a transmit timeout no larger than
\* the blockchain timeout.
SanityCeiling == 2
SanityCheckLocalConfig(l) ==
    /\ \A f \in {"BlockchainTimeout", "ContractConfigTrackerPollInterval",
                 "ContractConfigTrackerSubscribeInterval",
                 "ContractTransmitterTransmitTimeout", "DatabaseTimeout",
                 "DataSourceTimeout"} : l[f] >= 1 /\ l[f] <= SanityCeiling
    /\ l.ContractConfigConfirmations >= 1
    /\ l.ContractTransmitterTransmitTimeout <= l.BlockchainTimeout

\* ------------------------------------------------------------ inputs
\* A job spec.  ContractTransmitterTransmitTimeout and DatabaseTimeout are
\* keys a job's declarative spec may carry; ServicesForSpec reads neither.
NotOracleSpec ==
    [isOracleSpec |-> FALSE, IsBootstrapPeer |-> FALSE, P2PPeerID |-> "",
     P2PBootstrapPeers |-> <<>>, MonitoringEndpoint |-> "",
     EncryptedOCRKeyBundleID |-> "", TransmitterAddress |-> "",
     BlockchainTimeout |-> 0, ContractConfigConfirmations |-> 0,
     ContractConfigTrackerPollInterval |-> 0,
     ContractConfigTrackerSubscribeInterval |-> 0, ObservationTimeout |-> 0,
     ContractTransmitterTransmitTimeout |-> 0, DatabaseTimeout |-> 0]

OracleSpecs(peerIDs, peerLists, endpoints, keys, addrs, dur, extra) ==
    [isOracleSpec : {TRUE}, IsBootstrapPeer : BOOLEAN, P2PPeerID : peerIDs,
     P2PBootstrapPeers : peerLists, MonitoringEndpoint : endpoints,
     EncryptedOCRKeyBundleID : keys, TransmitterAddress : addrs,
     BlockchainTimeout : dur, ContractConfigConfirmations : dur,
     ContractConfigTrackerPollInterval : dur,
     ContractConfigTrackerSubscribeInterval : dur, ObservationTimeout : dur,
     ContractTransmitterTransmitTimeout : extra, DatabaseTimeout : extra]

\* All overrides absent, or all at the same value.
UniformTiming(s) ==
    \E v \in {0, MaxOverride} :
        /\ s.BlockchainTimeout = v /\ s.ContractConfigConfirmations = v
        /\ s.ContractConfigTrackerPollInterval = v
        /\ s.ContractConfigTrackerSubscribeInterval = v
        /\ s.ObservationTimeout = v
        /\ s.ContractTransmitterTransmitTimeout = v /\ s.DatabaseTimeout = v

NodeConfigs(timings, peerIDs, peerLists, urls) ==
    {[t EXCEPT !.P2PPeerID = p, !.P2PBootstrapPeers = l, !.ExplorerURL = u] :
        t \in {[d \in DOMAIN td \cup {"P2PPeerID", "P2PBootstrapPeers", "ExplorerURL"}
                  |-> IF d \in DOMAIN td THEN td[d] ELSE ""] : td \in timings},
        p \in peerIDs, l \in peerLists, u \in urls}

PeerWrappers ==
    {[present |-> FALSE, started |-> FALSE, PeerID |-> ""]}
        \cup [present : {TRUE}, started : BOOLEAN, PeerID : PeerIDs]

ExplorerURLs == {NoURL, [Scheme |-> "wss", Host |-> "explorer.example"]}

\* The callers of Observe: the protocol engine's call for a round, and its
\* call for the next round.
Callers == {"round1", "round2"}

NilObservation == [nil |-> TRUE, val |-> 0]
Observation(v) == [nil |-> FALSE, val |-> v]

InitCalls ==
    /\ runs = [r \in 1..MaxRuns |-> "none"]
    /\ harvested = {}
    /\ abandoned = {}
    /\ ctx = [c \in Callers |-> "live"]
    /\ expiredAtCall = [c \in Callers |-> FALSE]
    /\ doneFirst = [c \in Callers |-> FALSE]
    /\ opc = [c \in Callers |-> "idle"]
    /\ runID = [c \in Callers |-> 0]
    /\ results = [c \in Callers |-> <<>>]
    /\ observation = [c \in Callers |-> NilObservation]
    /\ oerr = [c \in Callers |-> ""]
    /\ protocol = [c \in Callers |-> <<>>]
    /\ previous = [c \in Callers |-> ""]

InitLocals ==
    /\ pc = "typeAssert"
    /\ services = <<>>
    /\ err = ""
    /\ peerID = ""
    /\ bootstrapPeers = <<>>
    /\ endpointURL = NoURL
    /\ monitoringEndpoint = FALSE
    /\ lc = NoLC
    /\ calls = {}

\* Inputs that vary the job's and the node's identity, peers, keys and
\* endpoints, with the timing overrides all absent or all present.
InitContext ==
    /\ spec \in {NotOracleSpec} \cup
         {s \in OracleSpecs({"", "p1"},
                            {<<>>} \cup (BoundedSeq({"b1"}, MaxBootstrapPeers)
                                         \cup {<<"!bad">>}),
                            EndpointStrings, {"", "k1"}, {"", "a1"},
                            {0, MaxOverride}, {0, MaxOverride}) : UniformTiming(s)}
    /\ config \in NodeConfigs({SaneDefaults, ZeroPollDefaults}, {"", "p2"},
                             {<<>>, <<"b2">>}, ExplorerURLs)
    /\ peerWrapper \in PeerWrappers
    /\ keyStore \in {{}, {"k1"}}

\* Inputs that vary every timing override independently, for a job and a node
\* that are otherwise in order.
InitTiming ==
    /\ spec \in OracleSpecs({"p1"}, {<<"b1">>}, {""}, {"k1"}, {"a1"},
                            0..MaxOverride, {0, MaxOverride})
    /\ config \in NodeConfigs(TimingDefaults, {""}, {<<>>}, {NoURL})
    /\ peerWrapper = [present |-> TRUE, started |-> TRUE, PeerID |-> "p1"]
    /\ keyStore = {"k1"}

Init == (InitContext \/ InitTiming) /\ InitLocals /\ InitCalls

\* ------------------------------------------------- ServicesForSpec, by statement
inputs == <<spec, config, peerWrapper, keyStore>>

\* Fail as it would be if a failing step returned the pending list.
FailKeepServices(e) ==
    /\ pc' = "done"
    /\ err' = e
    /\ UNCHANGED services

\* `return nil, <error>`: the named result is set to nil, whatever was appended.
Fail(e) ==
    /\ pc' = "done"
    /\ err' = e
    /\ services' = <<>>

Goto(next) ==
    /\ pc' = next
    /\ UNCHANGED <<err, services>>

\* A service of the bundle, with the arguments it was constructed from.
Service(kind, url, l, boot, mon, tx, ds, key) ==
    [kind |-> kind, url |-> url, LocalConfig |-> l, Bootstrappers |-> boot,
     MonitoringEndpoint |-> mon, ContractTransmitter |-> tx, Datasource |-> ds,
     PrivateKeys |-> key]

\* spec.(*OracleSpec)
TypeAssert ==
    /\ pc = "typeAssert"
    /\ IF spec.isOracleSpec THEN Goto("newFilterer") ELSE Fail("ErrSpecType")
    /\ UNCHANGED <<inputs, observeVars, peerID, bootstrapPeers, endpointURL,
                   monitoringEndpoint, lc, calls>>

\* offchainaggregator.NewOffchainAggregatorFilterer
NewFilterer ==
    /\ pc = "newFilterer"
    /\ calls' = calls \cup {"NewOffchainAggregatorFilterer"}
    /\ \E ok \in BOOLEAN :
         IF ok THEN Goto("newCaller") ELSE Fail("ErrNewFilterer")
    /\ UNCHANGED <<inputs, observeVars, peerID, bootstrapPeers, endpointURL,
                   monitoringEndpoint, lc>>

\* offchainaggregator.NewOffchainAggregatorCaller
NewCaller ==
    /\ pc = "newCaller"
    /\ calls' = calls \cup {"NewOffchainAggregatorCaller"}
    /\ \E ok \in BOOLEAN :
         IF ok THEN Goto("newTracker") ELSE Fail("ErrNewCaller")
    /\ UNCHANGED <<inputs, observeVars, peerID, bootstrapPeers, endpointURL,
                   monitoringEndpoint, lc>>

\* NewOCRContractConfigTracker
NewTracker ==
    /\ pc = "newTracker"
    /\ calls' = calls \cup {"NewOCRContractConfigTracker"}
    /\ \E ok \in BOOLEAN :
         IF ok THEN Goto("peerID") ELSE Fail("ErrNewOCRContract")
    /\ UNCHANGED <<inputs, observeVars, peerID, bootstrapPeers, endpointURL,
                   monitoringEndpoint, lc>>

\* d.config.P2PPeerID(concreteSpec.P2PPeerID)
ResolvePeerID ==
    /\ pc = "peerID"
    /\ LET r == P2PPeerID(config, spec.P2PPeerID)
       IN  /\ peerID' = r.val
           /\ IF r.ok THEN Goto("peerChecks") ELSE Fail("ErrP2PPeerID")
    /\ UNCHANGED <<inputs, observeVars, bootstrapPeers, endpointURL, monitoringEndpoint,
                   lc, calls>>

\* PeerChecks with the identity compared before the started flag is read.
PeerChecksIdentityFirst ==
    /\ pc = "peerChecks"
    /\ IF ~peerWrapper.present THEN Fail("ErrPeerMissing")
       ELSE IF peerWrapper.PeerID # peerID THEN Fail("ErrPeerIDMismatch")
       ELSE IF ~peerWrapper.started THEN Fail("ErrPeerNotStarted")
       ELSE Goto("bootstrapPeers")
    /\ UNCHANGED <<inputs, observeVars, peerID, bootstrapPeers, endpointURL,
                   monitoringEndpoint, lc, calls>>

\* The three checks of d.peerWrapper.
PeerChecks ==
    /\ pc = "peerChecks"
    /\ IF ~peerWrapper.present THEN Fail("ErrPeerMissing")
       ELSE IF ~peerWrapper.started THEN Fail("ErrPeerNotStarted")
       ELSE IF peerWrapper.PeerID # peerID THEN Fail("ErrPeerIDMismatch")
       ELSE Goto("bootstrapPeers")
    /\ UNCHANGED <<inputs, observeVars, peerID, bootstrapPeers, endpointURL,
                   monitoringEndpoint, lc, calls>>

\* d.config.P2PBootstrapPeers(concreteSpec.P2PBootstrapPeers)
ResolveBootstrapPeers ==
    /\ pc = "bootstrapPeers"
    /\ LET r == P2PBootstrapPeers(config, spec.P2PBootstrapPeers)
       IN  /\ bootstrapPeers' = r.val
           /\ IF r.ok THEN Goto("endpointURL") ELSE Fail("ErrP2PBootstrapPeers")
    /\ calls' = calls \cup {"P2PBootstrapPeers"}
    /\ UNCHANGED <<inputs, observeVars, peerID, endpointURL, monitoringEndpoint, lc>>

\* SelectEndpointURL preferring the node's explorer URL to the job's endpoint.
SelectEndpointURLExplorerFirst ==
    /\ pc = "endpointURL"
    /\ LET me == OCRMonitoringEndpoint(config, spec.MonitoringEndpoint)
       IN  IF ExplorerURL(config) # NoURL \/ me = ""
           THEN /\ endpointURL' = ExplorerURL(config)
                /\ Goto("monitoringEndpoint")
           ELSE LET r == UrlParse(me)
                IN  /\ endpointURL' = r.url
                    /\ IF r.ok THEN Goto("monitoringEndpoint")
                       ELSE Fail("ErrMonitoringURL")
    /\ UNCHANGED <<inputs, observeVars, peerID, bootstrapPeers, monitoringEndpoint, lc, calls>>

\* SelectEndpointURL falling back to the node's explorer URL when the job's
\* endpoint does not parse.
SelectEndpointURLFallback ==
    /\ pc = "endpointURL"
    /\ LET me == OCRMonitoringEndpoint(config, spec.MonitoringEndpoint)
       IN  IF me # "" /\ UrlParse(me).ok
           THEN /\ endpointURL' = UrlParse(me).url
                /\ Goto("monitoringEndpoint")
           ELSE /\ endpointURL' = ExplorerURL(config)
                /\ Goto("monitoringEndpoint")
    /\ UNCHANGED <<inputs, observeVars, peerID, bootstrapPeers, monitoringEndpoint, lc, calls>>

\* The choice of endpointURL.
SelectEndpointURL ==
    /\ pc = "endpointURL"
    /\ LET me == OCRMonitoringEndpoint(config, spec.MonitoringEndpoint)
       IN  IF me # ""
           THEN LET r == UrlParse(me)
                IN  /\ endpointURL' = r.url
                    /\ IF r.ok THEN Goto("monitoringEndpoint")
                       ELSE Fail("ErrMonitoringURL")
           ELSE /\ endpointURL' = ExplorerURL(config)
                /\ Goto("monitoringEndpoint")
    /\ UNCHANGED <<inputs, observeVars, peerID, bootstrapPeers, monitoringEndpoint, lc, calls>>

\* NewMonitoringEndpoint creating the client and its agent without adding the
\* client to the services.
NewMonitoringEndpointNotBundled ==
    /\ pc = "monitoringEndpoint"
    /\ IF endpointURL # NoURL
       THEN /\ calls' = calls \cup {"NewExplorerClient", "NewAgent"}
            /\ monitoringEndpoint' = TRUE
       ELSE /\ monitoringEndpoint' = FALSE
            /\ UNCHANGED calls
    /\ pc' = "localConfig"
    /\ UNCHANGED <<inputs, observeVars, services, err, peerID, bootstrapPeers,
                   endpointURL, lc>>

\* The explorer client and telemetry agent, when there is an endpointURL.
NewMonitoringEndpoint ==
    /\ pc = "monitoringEndpoint"
    /\ IF endpointURL # NoURL
       THEN /\ calls' = calls \cup {"NewExplorerClient", "NewAgent"}
            /\ monitoringEndpoint' = TRUE
            /\ services' = Append(services,
                 Service("ExplorerClient", endpointURL, NoLC, <<>>, FALSE,
                         FALSE, FALSE, ""))
       ELSE /\ monitoringEndpoint' = FALSE
            /\ UNCHANGED <<calls, services>>
    /\ pc' = "localConfig"
    /\ UNCHANGED <<inputs, observeVars, err, peerID, bootstrapPeers, endpointURL, lc>>

\* LocalConfig with the poll and subscribe overrides handed to each other's getter.
LocalConfigSwapped(s, c) ==
    [BlockchainTimeout |-> OCRBlockchainTimeout(c, s.BlockchainTimeout),
     ContractConfigConfirmations |->
         OCRContractConfirmations(c, s.ContractConfigConfirmations),
     ContractConfigTrackerPollInterval |->
         OCRContractPollInterval(c, s.ContractConfigTrackerSubscribeInterval),
     ContractConfigTrackerSubscribeInterval |->
         OCRContractSubscribeInterval(c, s.ContractConfigTrackerPollInterval),
     ContractTransmitterTransmitTimeout |-> OCRContractTransmitterTransmitTimeout(c),
     DatabaseTimeout |-> OCRDatabaseTimeout(c),
     DataSourceTimeout |-> OCRObservationTimeout(c, s.ObservationTimeout)]

\* The ocrtypes.LocalConfig literal.
LocalConfig(s, c) ==
    [BlockchainTimeout |-> OCRBlockchainTimeout(c, s.BlockchainTimeout),
     ContractConfigConfirmations |->
         OCRContractConfirmations(c, s.ContractConfigConfirmations),
     ContractConfigTrackerPollInterval |->
         OCRContractPollInterval(c, s.ContractConfigTrackerPollInterval),
     ContractConfigTrackerSubscribeInterval |->
         OCRContractSubscribeInterval(c, s.ContractConfigTrackerSubscribeInterval),
     ContractTransmitterTransmitTimeout |-> OCRContractTransmitterTransmitTimeout(c),
     DatabaseTimeout |-> OCRDatabaseTimeout(c),
     DataSourceTimeout |-> OCRObservationTimeout(c, s.ObservationTimeout)]

\* ResolveLocalConfig with the branch on IsBootstrapPeer inverted.
ResolveLocalConfigInverted ==
    /\ pc = "localConfig"
    /\ lc' = LocalConfig(spec, config)
    /\ IF ~SanityCheckLocalConfig(lc') THEN Fail("ErrSanityCheck")
       ELSE IF ~spec.IsBootstrapPeer THEN Goto("newBootstrapNode")
       ELSE Goto("needBootstrapPeer")
    /\ UNCHANGED <<inputs, observeVars, peerID, bootstrapPeers, endpointURL,
                   monitoringEndpoint, calls>>

\* lc and its sanity check, then the branch on IsBootstrapPeer.
ResolveLocalConfig ==
    /\ pc = "localConfig"
    /\ lc' = LocalConfig(spec, config)
    /\ IF ~SanityCheckLocalConfig(lc') THEN Fail("ErrSanityCheck")
       ELSE IF spec.IsBootstrapPeer THEN Goto("newBootstrapNode")
       ELSE Goto("needBootstrapPeer")
    /\ UNCHANGED <<inputs, observeVars, peerID, bootstrapPeers, endpointURL,
                   monitoringEndpoint, calls>>

\* ocr.NewBootstrapNode and the append of the bootstrapper.
NewBootstrapNode ==
    /\ pc = "newBootstrapNode"
    /\ calls' = calls \cup {"NewBootstrapNode"}
    /\ \E ok \in BOOLEAN :
         IF ok
         THEN /\ services' = Append(services,
                   Service("BootstrapNode", NoURL, lc, bootstrapPeers,
                           monitoringEndpoint, FALSE, FALSE, ""))
              /\ pc' = "done"
              /\ UNCHANGED err
         ELSE Fail("ErrNewBootstrapNode")
    /\ UNCHANGED <<inputs, observeVars, peerID, bootstrapPeers, endpointURL,
                   monitoringEndpoint, lc>>

\* NeedBootstrapPeer with the comparison off by one (len < 0).
NeedBootstrapPeerOffByOne ==
    /\ pc = "needBootstrapPeer"
    /\ IF Len(bootstrapPeers) < 0 THEN Fail("ErrNeedBootstrapPeer")
       ELSE Goto("keyBundle")
    /\ UNCHANGED <<inputs, observeVars, peerID, bootstrapPeers, endpointURL,
                   monitoringEndpoint, lc, calls>>

\* len(bootstrapPeers) < 1
NeedBootstrapPeer ==
    /\ pc = "needBootstrapPeer"
    /\ IF Len(bootstrapPeers) < 1 THEN Fail("ErrNeedBootstrapPeer")
       ELSE Goto("keyBundle")
    /\ UNCHANGED <<inputs, observeVars, peerID, bootstrapPeers, endpointURL,
                   monitoringEndpoint, lc, calls>>

\* d.config.OCRKeyBundleID and d.keyStore.DecryptedOCRKey
ResolveKey ==
    /\ pc = "keyBundle"
    /\ LET kb == OCRKeyBundleID(config, spec.EncryptedOCRKeyBundleID)
       IN  IF ~kb.ok
           THEN Fail("ErrOCRKeyBundleID") /\ UNCHANGED calls
           ELSE /\ calls' = calls \cup {"DecryptedOCRKey"}
                /\ IF kb.val \notin keyStore THEN Fail("ErrKeyMissing")
                   ELSE Goto("transmitter")
    /\ UNCHANGED <<inputs, observeVars, peerID, bootstrapPeers, endpointURL,
                   monitoringEndpoint, lc>>

\* abi.JSON of the embedded contract ABI (a constant that parses), then
\* d.config.OCRTransmitterAddress, NewTransmitter and NewOCRContractTransmitter.
NewContractTransmitter ==
    /\ pc = "transmitter"
    /\ LET ta == OCRTransmitterAddress(config, spec.TransmitterAddress)
       IN  IF ~ta.ok
           THEN Fail("ErrOCRTransmitterAddress") /\ UNCHANGED calls
           ELSE /\ calls' = calls \cup {"NewTransmitter", "NewOCRContractTransmitter"}
                /\ Goto("newOracle")
    /\ UNCHANGED <<inputs, observeVars, peerID, bootstrapPeers, endpointURL,
                   monitoringEndpoint, lc>>

\* The dataSource literal, ocr.NewOracle and the append of the oracle.
NewOracle ==
    /\ pc = "newOracle"
    /\ calls' = calls \cup {"dataSource", "NewOracle"}
    /\ \E ok \in BOOLEAN :
         IF ok
         THEN /\ services' = Append(services,
                   Service("Oracle", NoURL, lc, bootstrapPeers,
                           monitoringEndpoint, TRUE, TRUE,
                           spec.EncryptedOCRKeyBundleID))
              /\ pc' = "done"
              /\ UNCHANGED err
         ELSE Fail("ErrNewOracle")
    /\ UNCHANGED <<inputs, observeVars, peerID, bootstrapPeers, endpointURL,
                   monitoringEndpoint, lc>>

Next ==
    \/ TypeAssert \/ NewFilterer \/ NewCaller \/ NewTracker
    \/ ResolvePeerID \/ PeerChecks \/ ResolveBootstrapPeers
    \/ SelectEndpointURL \/ NewMonitoringEndpoint \/ ResolveLocalConfig
    \/ NewBootstrapNode
    \/ NeedBootstrapPeer \/ ResolveKey \/ NewContractTransmitter \/ NewOracle

Spec == Init /\ [][Next]_vars

\* ------------------------------------------------- the pipeline runner
\* What a run's result set can hold: a numeric value, a value that is no
\* number, and a result that carries an execution error beside its value.
Numeric == [Value |-> "3", Error |-> ""]
Fractional == [Value |-> "2.5", Error |-> ""]
NotANumber == [Value |-> "abc", Error |-> ""]
Errored == [Value |-> "3", Error |-> "task failed"]

\* The result sets drawn: every set of at most one result, and the longer
\* ones over a numeric and an errored result.
ResultSets ==
    BoundedSeq({Numeric, Fractional, NotANumber, Errored}, 1)
        \cup BoundedSeq({Numeric, Errored}, MaxResults)

HasError(res) == \E i \in 1..Len(res) : res[i].Error # ""

Terminal(r) == runs[r] \in {"success", "error"}

NextRunID == Cardinality({r \in 1..MaxRuns : runs[r] # "none"}) + 1

\* createRun(jobID) -> runID: a fresh run, unless the engine cannot accept the
\* run; with a context that is already done, the context's error or a run.
CreateRunOutcomes(c) ==
    (IF ctx[c] = "done"
     THEN {[runID |-> 0, err |-> "ObservationTimeout"]}
     ELSE {[runID |-> 0, err |-> "PipelineStartError"]})
        \cup (IF NextRunID <= MaxRuns
              THEN {[runID |-> NextRunID, err |-> ""]}
              ELSE {})

\* awaitRun(ctx, runID) -> error: returns nil once the run is terminal, and the
\* context's error once the context is done; when the context was done first
\* it is the context's error.  Empty while neither holds: the call blocks.
AwaitRunOutcomes(c, r) ==
    (IF ctx[c] = "done" THEN {"ObservationTimeout"} ELSE {})
        \cup (IF Terminal(r) /\ ~doneFirst[c] THEN {""} ELSE {})

\* resultsForRun(runID) -> (results, error): the result set of a terminal run,
\* error-free exactly when the run succeeded, or a failure to fetch it.
ResultsForRunOutcomes(r) ==
    {[results |-> <<>>, err |-> "fetch failed"]}
        \cup {[results |-> res, err |-> ""] :
                res \in {x \in ResultSets :
                           \/ runs[r] = "success" /\ ~HasError(x)
                           \/ runs[r] = "error" /\ HasError(x)}}

\* The engine finishes a run, with or without the caller still waiting.
FinishRun(r) ==
    /\ runs[r] = "running"
    /\ \E s \in {"success", "error"} : runs' = [runs EXCEPT ![r] = s]
    /\ UNCHANGED <<buildVars, harvested, abandoned, ctx, expiredAtCall,
                   doneFirst, opc, runID, results, observation, oerr, protocol,
                   previous>>

\* ------------------------------------------------- dataSource.Observe, by statement
\* utils.ToDecimal: a decimal as coefficient and number of fraction digits.
ToDecimal(v) ==
    CASE v = "3" -> [coef |-> 3, digits |-> 0, ok |-> TRUE]
      [] v = "2.5" -> [coef |-> 25, digits |-> 1, ok |-> TRUE]
      [] OTHER -> [coef |-> 0, digits |-> 0, ok |-> FALSE]

\* decimal.BigInt: the integer part.
BigInt(d) == d.coef \div (10 ^ d.digits)

\* A data source that latches: when the caller's call before failed, the
\* return is that failure again.
ReturnLatched(c, o, e) ==
    /\ opc' = [opc EXCEPT ![c] = "done"]
    /\ observation' =
         [observation EXCEPT ![c] = IF previous[c] # "" THEN NilObservation ELSE o]
    /\ oerr' = [oerr EXCEPT ![c] = IF previous[c] # "" THEN previous[c] ELSE e]

\* `return <observation>, <error>`: the call hands both to its caller and
\* leaves nothing behind in the data source, which has no field it writes.
Return(c, o, e) ==
    /\ opc' = [opc EXCEPT ![c] = "done"]
    /\ observation' = [observation EXCEPT ![c] = o]
    /\ oerr' = [oerr EXCEPT ![c] = e]

\* Harvest with the execution error of the first result read before the length.
HarvestErrorFirst(res) ==
    IF Len(res) >= 1 /\ res[1].Error # ""
    THEN [obs |-> NilObservation, err |-> res[1].Error]
    ELSE IF Len(res) # 1
    THEN [obs |-> NilObservation, err |-> "TopologyError"]
    ELSE LET d == ToDecimal(res[1].Value)
         IN  IF ~d.ok THEN [obs |-> NilObservation, err |-> "CoercionError"]
             ELSE [obs |-> Observation(BigInt(d)), err |-> ""]

\* Harvest handing on a zero observation when the value does not convert.
HarvestCoercionIgnored(res) ==
    IF Len(res) # 1
    THEN [obs |-> NilObservation, err |-> "TopologyError"]
    ELSE IF res[1].Error # ""
    THEN [obs |-> NilObservation, err |-> res[1].Error]
    ELSE LET d == ToDecimal(res[1].Value)
         IN  [obs |-> Observation(BigInt(d)), err |-> ""]

\* Harvest taking the value of the result whenever it converts, and looking
\* at the execution error only when it does not.
HarvestValueFirst(res) ==
    IF Len(res) # 1
    THEN [obs |-> NilObservation, err |-> "TopologyError"]
    ELSE LET d == ToDecimal(res[1].Value)
         IN  IF d.ok THEN [obs |-> Observation(BigInt(d)), err |-> ""]
             ELSE IF res[1].Error # ""
             THEN [obs |-> NilObservation, err |-> res[1].Error]
             ELSE [obs |-> NilObservation, err |-> "CoercionError"]

\* What Observe makes of the results it fetched.
Harvest(res) ==
    IF Len(res) # 1
    THEN [obs |-> NilObservation, err |-> "TopologyError"]
    ELSE IF res[1].Error # ""
    THEN [obs |-> NilObservation, err |-> res[1].Error]
    ELSE LET d == ToDecimal(res[1].Value)
         IN  IF ~d.ok THEN [obs |-> NilObservation, err |-> "CoercionError"]
             ELSE [obs |-> Observation(BigInt(d)), err |-> ""]

\* The protocol engine calls Observe, with a live context or one already done.
CallObserve(c) ==
    /\ opc[c] = "idle"
    /\ \E k \in {"live", "done"} :
         /\ ctx' = [ctx EXCEPT ![c] = k]
         /\ expiredAtCall' = [expiredAtCall EXCEPT ![c] = (k = "done")]
         /\ doneFirst' = [doneFirst EXCEPT ![c] = (k = "done")]
    /\ opc' = [opc EXCEPT ![c] = "createRun"]
    /\ runID' = [runID EXCEPT ![c] = 0]
    /\ results' = [results EXCEPT ![c] = <<>>]
    /\ observation' = [observation EXCEPT ![c] = NilObservation]
    /\ protocol' = [protocol EXCEPT ![c] = <<>>]
    /\ previous' = [previous EXCEPT ![c] = oerr[c]]
    /\ oerr' = [oerr EXCEPT ![c] = ""]
    /\ UNCHANGED <<buildVars, runs, harvested, abandoned>>

\* The caller cancels the context of its call in flight, or its deadline elapses.
Cancel(c) ==
    /\ opc[c] \in {"createRun", "awaitRun", "resultsForRun"}
    /\ ctx[c] = "live"
    /\ ctx' = [ctx EXCEPT ![c] = "done"]
    /\ doneFirst' = [doneFirst EXCEPT ![c] = ~(runID[c] # 0 /\ Terminal(runID[c]))]
    /\ UNCHANGED <<buildVars, runs, harvested, abandoned, expiredAtCall, opc,
                   runID, results, observation, oerr, protocol, previous>>

\* The data source of the job: the job's ID, next to the pipeline runner.
dataSource == [jobID |-> "job"]

\* No run-time inputs: the nil meta of CreateRun.
NilMeta == "nil"

\* Observe calls the pipeline runner: the method, its arguments after ctx, the
\* run ID it returned (0 when none) and its error.
Called(c, op, args, ret, e) ==
    protocol' = [protocol EXCEPT
                   ![c] = Append(@, [op |-> op, args |-> args, ret |-> ret,
                                     err |-> e])]

\* CreateRun called again when it failed while the context is live.
CreateRunRetried(c) ==
    /\ opc[c] = "createRun"
    /\ \E out \in CreateRunOutcomes(c) :
         /\ Called(c, "CreateRun", <<dataSource.jobID, NilMeta>>, out.runID,
                   out.err)
         /\ IF out.err # "" /\ ctx[c] = "done"
            THEN /\ Return(c, NilObservation, out.err)
                 /\ UNCHANGED <<runs, runID>>
            ELSE IF out.err # ""
            THEN UNCHANGED <<runs, runID, opc, observation, oerr>>
            ELSE /\ runs' = [runs EXCEPT ![out.runID] = "running"]
                 /\ runID' = [runID EXCEPT ![c] = out.runID]
                 /\ opc' = [opc EXCEPT ![c] = "awaitRun"]
                 /\ UNCHANGED <<observation, oerr>>
    /\ UNCHANGED <<buildVars, harvested, abandoned, ctx, expiredAtCall,
                   doneFirst, results, previous>>

\* runID, err := ds.pipelineRunner.CreateRun(ctx, ds.jobID, nil)
CreateRun(c) ==
    /\ opc[c] = "createRun"
    /\ \E out \in CreateRunOutcomes(c) :
         /\ Called(c, "CreateRun", <<dataSource.jobID, NilMeta>>, out.runID,
                   out.err)
         /\ IF out.err # ""
            THEN /\ Return(c, NilObservation, out.err)
                 /\ UNCHANGED <<runs, runID>>
            ELSE /\ runs' = [runs EXCEPT ![out.runID] = "running"]
                 /\ runID' = [runID EXCEPT ![c] = out.runID]
                 /\ opc' = [opc EXCEPT ![c] = "awaitRun"]
                 /\ UNCHANGED <<observation, oerr>>
    /\ UNCHANGED <<buildVars, harvested, abandoned, ctx, expiredAtCall,
                   doneFirst, results, previous>>

\* AwaitRun going on to the results whatever AwaitRun returned.
AwaitRunErrorIgnored(c) ==
    /\ opc[c] = "awaitRun"
    /\ \E e \in AwaitRunOutcomes(c, runID[c]) :
         /\ Called(c, "AwaitRun", <<runID[c]>>, 0, e)
         /\ opc' = [opc EXCEPT ![c] = "resultsForRun"]
         /\ abandoned' = IF e # "" THEN abandoned \cup {runID[c]} ELSE abandoned
         /\ UNCHANGED <<observation, oerr>>
    /\ UNCHANGED <<buildVars, runs, harvested, ctx, expiredAtCall, doneFirst,
                   runID, results, previous>>

\* AwaitRun waiting for the run the engine created last, whoever created it.
AwaitRunLatest(c) ==
    /\ opc[c] = "awaitRun"
    /\ \E e \in AwaitRunOutcomes(c, NextRunID - 1) :
         /\ Called(c, "AwaitRun", <<NextRunID - 1>>, 0, e)
         /\ IF e # ""
            THEN /\ Return(c, NilObservation, e)
                 /\ abandoned' = abandoned \cup {runID[c]}
            ELSE /\ opc' = [opc EXCEPT ![c] = "resultsForRun"]
                 /\ UNCHANGED <<observation, oerr, abandoned>>
    /\ UNCHANGED <<buildVars, runs, harvested, ctx, expiredAtCall, doneFirst,
                   runID, results, previous>>

\* err = ds.pipelineRunner.AwaitRun(ctx, runID)
AwaitRun(c) ==
    /\ opc[c] = "awaitRun"
    /\ \E e \in AwaitRunOutcomes(c, runID[c]) :
         /\ Called(c, "AwaitRun", <<runID[c]>>, 0, e)
         /\ IF e # ""
            THEN /\ Return(c, NilObservation, e)
                 /\ abandoned' = abandoned \cup {runID[c]}
            ELSE /\ opc' = [opc EXCEPT ![c] = "resultsForRun"]
                 /\ UNCHANGED <<observation, oerr, abandoned>>
    /\ UNCHANGED <<buildVars, runs, harvested, ctx, expiredAtCall, doneFirst,
                   runID, results, previous>>

\* results, err := ds.pipelineRunner.ResultsForRun(ctx, runID), then the
\* checks and the conversion of the result.
ResultsForRun(c) ==
    /\ opc[c] = "resultsForRun"
    /\ harvested' = harvested \cup {runID[c]}
    /\ \E out \in ResultsForRunOutcomes(runID[c]) :
         /\ Called(c, "ResultsForRun", <<runID[c]>>, 0, out.err)
         /\ IF out.err # ""
            THEN /\ Return(c, NilObservation, "pipeline error")
                 /\ UNCHANGED results
            ELSE /\ results' = [results EXCEPT ![c] = out.results]
                 /\ Return(c, Harvest(out.results).obs, Harvest(out.results).err)
    /\ UNCHANGED <<buildVars, runs, abandoned, ctx, expiredAtCall, doneFirst,
                   runID, previous>>

\* Observe has returned to the protocol engine, which may call it again.
Returned(c) ==
    /\ opc[c] = "done"
    /\ opc' = [opc EXCEPT ![c] = "idle"]
    /\ previous' = [previous EXCEPT ![c] = ""]
    /\ UNCHANGED <<buildVars, runs, harvested, abandoned, ctx, expiredAtCall,
                   doneFirst, runID, results, observation, oerr, protocol>>

NextObserve ==
    \/ \E c \in Callers : CallObserve(c)
    \/ \E c \in Callers : Cancel(c)
    \/ \E c \in Callers : CreateRun(c)
    \/ \E c \in Callers : AwaitRun(c)
    \/ \E c \in Callers : ResultsForRun(c)
    \/ \E c \in Callers : Returned(c)
    \/ \E r \in 1..MaxRuns : FinishRun(r)

\* The data source of a job whose build is not under way.
InitIdleBuild ==
    /\ spec = [NotOracleSpec EXCEPT !.isOracleSpec = TRUE, !.P2PPeerID = "p1",
                 !.P2PBootstrapPeers = <<"b1">>,
                 !.EncryptedOCRKeyBundleID = "k1", !.TransmitterAddress = "a1"]
    /\ config \in NodeConfigs({SaneDefaults}, {""}, {<<>>}, {NoURL})
    /\ peerWrapper = [present |-> TRUE, started |-> TRUE, PeerID |-> "p1"]
    /\ keyStore = {"k1"}

InitObserve == InitIdleBuild /\ InitLocals /\ InitCalls

SpecObserve == InitObserve /\ [][NextObserve]_vars

\* ===================================================== properties of build
Done == pc = "done"
Succeeded == Done /\ err = ""
Failed == Done /\ err # ""

\* The errors of the steps that follow the construction of the monitoring client.
LateErrors ==
    {"ErrSanityCheck", "ErrNewBootstrapNode", "ErrNeedBootstrapPeer",
     "ErrOCRKeyBundleID", "ErrKeyMissing", "ErrOCRTransmitterAddress",
     "ErrNewOracle"}

\* The build has gone past the construction of the monitoring client.
MonitoringDone ==
    \/ pc \in {"localConfig", "newBootstrapNode", "needBootstrapPeer",
               "keyBundle", "transmitter", "newOracle"}
    \/ Done /\ err \in LateErrors \cup {""}

Kinds(svcs) == {svcs[i].kind : i \in 1..Len(svcs)}

\* ---- C1
\* C1: build is all-or-nothing: whenever it returns an error, from whichever
\* step, the returned service set is empty, also when the monitoring client had
\* been appended before the failing step; and a build that returns no error
\* returns a non-empty set.
C1_AllOrNothing ==
    /\ Failed => services = <<>>
    /\ Succeeded => services # <<>>

C1_Witness ==
    /\ Failed
    /\ "NewExplorerClient" \in calls
    /\ err \in LateErrors

\* ---- C2
JobOverride(s, t) ==
    CASE t = "BlockchainTimeout" -> s.BlockchainTimeout
      [] t = "ContractConfigConfirmations" -> s.ContractConfigConfirmations
      [] t = "ContractConfigTrackerPollInterval" -> s.ContractConfigTrackerPollInterval
      [] t = "ContractConfigTrackerSubscribeInterval" ->
             s.ContractConfigTrackerSubscribeInterval
      [] t = "ContractTransmitterTransmitTimeout" -> s.ContractTransmitterTransmitTimeout
      [] t = "DatabaseTimeout" -> s.DatabaseTimeout
      [] t = "DataSourceTimeout" -> s.ObservationTimeout

NodeDefault(c, t) ==
    CASE t = "BlockchainTimeout" -> c.OCRBlockchainTimeout
      [] t = "ContractConfigConfirmations" -> c.OCRContractConfirmations
      [] t = "ContractConfigTrackerPollInterval" -> c.OCRContractPollInterval
      [] t = "ContractConfigTrackerSubscribeInterval" -> c.OCRContractSubscribeInterval
      [] t = "ContractTransmitterTransmitTimeout" ->
             c.OCRContractTransmitterTransmitTimeout
      [] t = "DatabaseTimeout" -> c.OCRDatabaseTimeout
      [] t = "DataSourceTimeout" -> c.OCRObservationTimeout

LcResolved == lc # NoLC

\* C2 as stated: for each of the 7 tunables, an override supplied by the job
\* is the resolved value, and the node-wide default is the value otherwise.
C2_EveryOverrideWins ==
    LcResolved =>
        \A t \in Tunables :
            lc[t] = IF JobOverride(spec, t) # 0 THEN JobOverride(spec, t)
                    ELSE NodeDefault(config, t)

\* C2 (amended): for each of the 5 tunables whose job value build hands to the
\* getter (blockchain timeout, confirmation count, poll interval, subscribe
\* interval, observation timeout) the job's override is the resolved value when
\* supplied and the node-wide default otherwise; the transmit timeout and the
\* database timeout are the node-wide defaults whatever the job supplies.
C2_PassedOverridesWin ==
    LcResolved =>
        /\ \A t \in PassedOverrides :
              lc[t] = IF JobOverride(spec, t) # 0 THEN JobOverride(spec, t)
                      ELSE NodeDefault(config, t)
        /\ \A t \in Tunables \ PassedOverrides : lc[t] = NodeDefault(config, t)

C2_Witness ==
    /\ LcResolved
    /\ spec.BlockchainTimeout # 0
    /\ spec.BlockchainTimeout # config.OCRBlockchainTimeout
    /\ spec.ContractConfigTrackerPollInterval = 0
    /\ spec.ContractConfigTrackerSubscribeInterval # 0
    /\ spec.ContractTransmitterTransmitTimeout # 0
    /\ lc.ContractTransmitterTransmitTimeout # spec.ContractTransmitterTransmitTimeout

\* ---- C3
\* The six preconditions, read off the inputs.
ResolvedPeerID == P2PPeerID(config, spec.P2PPeerID)
ResolvedBootstrapPeers == P2PBootstrapPeers(config, spec.P2PBootstrapPeers)
ResolvedKeyBundle == OCRKeyBundleID(config, spec.EncryptedOCRKeyBundleID)

Precondition(i) ==
    CASE i = 1 -> peerWrapper.present
      [] i = 2 -> peerWrapper.started
      [] i = 3 -> ResolvedPeerID.ok /\ peerWrapper.PeerID = ResolvedPeerID.val
      [] i = 4 -> spec.IsBootstrapPeer \/ Len(ResolvedBootstrapPeers.val) >= 1
      [] i = 5 -> spec.IsBootstrapPeer
                    \/ (ResolvedKeyBundle.ok /\ ResolvedKeyBundle.val \in keyStore)
      [] i = 6 -> spec.IsBootstrapPeer
                    \/ OCRTransmitterAddress(config, spec.TransmitterAddress).ok

PreconditionErrors(i) ==
    CASE i = 1 -> {"ErrPeerMissing"}
      [] i = 2 -> {"ErrPeerNotStarted"}
      [] i = 3 -> {"ErrPeerIDMismatch"}
      [] i = 4 -> {"ErrNeedBootstrapPeer"}
      [] i = 5 -> {"ErrOCRKeyBundleID", "ErrKeyMissing"}
      [] i = 6 -> {"ErrOCRTransmitterAddress"}

Preconditions == 1..6
SomeViolated == \E i \in Preconditions : ~Precondition(i)
FirstViolated == CHOOSE i \in Preconditions :
    ~Precondition(i) /\ \A j \in 1..(i - 1) : Precondition(j)

\* The failures of the steps that build evaluates before precondition i.
Preempting(i) ==
    {"ErrNewFilterer", "ErrNewCaller", "ErrNewOCRContract", "ErrP2PPeerID"}
        \cup (IF i >= 4
              THEN {"ErrP2PBootstrapPeers", "ErrMonitoringURL", "ErrSanityCheck"}
              ELSE {})

EmptyBootstrapList ==
    /\ spec.isOracleSpec /\ ~spec.IsBootstrapPeer
    /\ "P2PBootstrapPeers" \in calls
    /\ ResolvedBootstrapPeers.ok
    /\ bootstrapPeers = <<>>

FullParticipantCalls ==
    {"DecryptedOCRKey", "NewTransmitter", "NewOCRContractTransmitter",
     "dataSource", "NewOracle"}

\* C5: the branch is selected by the bootstrap-only flag alone.  A build of a
\* bootstrap-only spec never consults the key store and constructs no
\* transmitter, observation source or oracle, and when it succeeds its bundle
\* ends with a bootstrap node that has neither; a build of a full-participant
\* spec never constructs a bootstrap node, and when it succeeds its bundle is
\* non-empty and ends with the oracle, wired to a transmitter and an
\* observation source.
C5_BranchesExclusive ==
    spec.isOracleSpec =>
        /\ spec.IsBootstrapPeer =>
              /\ calls \cap FullParticipantCalls = {}
              /\ Succeeded =>
                    /\ services # <<>>
                    /\ "Oracle" \notin Kinds(services)
                    /\ services[Len(services)].kind = "BootstrapNode"
                    /\ \A i \in 1..Len(services) :
                          ~services[i].ContractTransmitter /\ ~services[i].Datasource
        /\ ~spec.IsBootstrapPeer =>
              /\ "NewBootstrapNode" \notin calls
              /\ Succeeded =>
                    /\ services # <<>>
                    /\ "BootstrapNode" \notin Kinds(services)
                    /\ services[Len(services)].kind = "Oracle"
                    /\ services[Len(services)].ContractTransmitter
                    /\ services[Len(services)].Datasource
                    /\ FullParticipantCalls \subseteq calls

\* A bootstrap-only build that succeeds with no bootstrap peer and no key bundle.
C5_Witness ==
    /\ Succeeded
    /\ spec.IsBootstrapPeer
    /\ bootstrapPeers = <<>>
    /\ spec.EncryptedOCRKeyBundleID = ""
    /\ keyStore = {}

\* ---- C10
\* C10: the monitoring sink follows the precedence job endpoint, then the
\* node's explorer URL, then none.  Once the endpoint is chosen it is the parsed
\* job endpoint when the job gives a non-empty one and the explorer URL (nil
\* when not configured) otherwise, the empty string counting as no endpoint;
\* with a nil endpoint the sink is nil, no monitoring client is constructed or
\* added, and the build goes on without an error; with an endpoint the client
\* added is the one for that endpoint.
C10_MonitoringPrecedence ==
    /\ (pc = "monitoringEndpoint" \/ MonitoringDone) =>
          endpointURL = IF spec.MonitoringEndpoint # ""
                        THEN UrlParse(spec.MonitoringEndpoint).url
                        ELSE config.ExplorerURL
    /\ MonitoringDone =>
          /\ monitoringEndpoint = (endpointURL # NoURL)
          /\ ("NewExplorerClient" \in calls) = (endpointURL # NoURL)
    /\ (MonitoringDone /\ ~Failed) =>
          IF endpointURL = NoURL
          THEN "ExplorerClient" \notin Kinds(services)
          ELSE /\ services # <<>>
               /\ services[1].kind = "ExplorerClient"
               /\ services[1].url = endpointURL
    /\ pc = "localConfig" => err = ""

\* A build that succeeds with no job endpoint and no explorer URL.
C10_Witness ==
    /\ Succeeded
    /\ spec.MonitoringEndpoint = ""
    /\ config.ExplorerURL = NoURL
    /\ ~monitoringEndpoint
    /\ Len(services) = 1

\* ---- C16
Engines == {"BootstrapNode", "Oracle"}

\* C16: the services of a build that succeeded are one or two.  The last is
\* the one protocol engine instance of the bundle: the bootstrap node when the
\* spec is bootstrap-only, the oracle otherwise.  There are two exactly when
\* an endpoint URL was chosen, and then the first is the monitoring client for
\* that URL.  Nothing else is in the bundle: the contract config tracker is
\* handed to the engine and is no service of its own.
C16_BundleShape ==
    Succeeded
        => /\ Len(services) \in {1, 2}
           /\ services[Len(services)].kind
                = IF spec.IsBootstrapPeer THEN "BootstrapNode" ELSE "Oracle"
           /\ Cardinality({i \in 1..Len(services) : services[i].kind \in Engines})
                = 1
           /\ Len(services) = 2 <=> endpointURL # NoURL
           /\ Len(services) = 2
                => /\ services[1].kind = "ExplorerClient"
                   /\ services[1].url = endpointURL
           /\ Kinds(services) \subseteq Engines \cup {"ExplorerClient"}

\* A full participant built with the node's explorer URL as its endpoint: the
\* monitoring client, then the oracle.
C16_Witness ==
    /\ Succeeded
    /\ ~spec.IsBootstrapPeer
    /\ spec.MonitoringEndpoint = ""
    /\ endpointURL # NoURL
    /\ Len(services) = 2
    /\ services[1].kind = "ExplorerClient"
    /\ services[2].kind = "Oracle"

\* ---- C17
\* The monitoring endpoint the build resolves for the job.
ResolvedEndpoint == OCRMonitoringEndpoint(config, spec.MonitoringEndpoint)

\* The resolved endpoint is not empty and is no URL.
Unparsable ==
    /\ spec.isOracleSpec
    /\ ResolvedEndpoint # ""
    /\ ~UrlParse(ResolvedEndpoint).ok

\* The build has come to the choice of the endpoint URL and is over.
DoneSelecting ==
    /\ Done
    /\ "P2PBootstrapPeers" \in calls
    /\ err # "ErrP2PBootstrapPeers"

\* C17: a resolved monitoring endpoint that is not empty and does not parse as
\* a URL ends the build, bootstrap-only or full participant alike, at the
\* choice of the endpoint: with the error of the invalid monitoring URL and no
\* services, no endpoint URL chosen, no monitoring client constructed and no
\* later step run.  The node's explorer URL is the endpoint of a build only
\* when the resolved endpoint is the empty string.
C17_UnparsableEndpointFatal ==
    /\ Unparsable
         => /\ pc \notin {"monitoringEndpoint", "localConfig", "newBootstrapNode",
                          "needBootstrapPeer", "keyBundle", "transmitter",
                          "newOracle"}
            /\ endpointURL = NoURL
            /\ ~monitoringEndpoint
            /\ "NewExplorerClient" \notin calls
            /\ Done => err # "" /\ services = <<>>
            /\ DoneSelecting => err = "ErrMonitoringURL"
    /\ /\ pc = "monitoringEndpoint" \/ MonitoringDone
       /\ config.ExplorerURL # NoURL
       /\ endpointURL = config.ExplorerURL
       => ResolvedEndpoint = ""

\* A bootstrap-only build on a node with an explorer URL has failed on the
\* job's endpoint "%zz".
C17_Witness ==
    /\ Unparsable
    /\ spec.IsBootstrapPeer
    /\ config.ExplorerURL # NoURL
    /\ DoneSelecting
    /\ err = "ErrMonitoringURL"
    /\ services = <<>>

\* The same failure of a full participant.
C17_FullParticipantCase ==
    /\ Unparsable
    /\ ~spec.IsBootstrapPeer
    /\ config.ExplorerURL # NoURL
    /\ DoneSelecting
    /\ err = "ErrMonitoringURL"
    /\ services = <<>>

\* ===================================================== properties of observe
Fetched(c) == runID[c] \in harvested /\ oerr[c] # "pipeline error"

\* ---- C6
\* C6: an Observe call that fetched a result set of any size other than one
\* (none, two or more) returns TopologyError and no observation, never a
\* coercion or execution error, whatever errors or non-numeric values the
\* results carry.
C6_TopologyError ==
    \A c \in Callers :
        (opc[c] = "done" /\ Fetched(c) /\ Len(results[c]) # 1) =>
            oerr[c] = "TopologyError" /\ observation[c] = NilObservation

\* Two results, the first of which carries an execution error.
C6_Witness ==
    \E c \in Callers :
        /\ opc[c] = "done" /\ Fetched(c)
        /\ Len(results[c]) = 2
        /\ results[c][1].Error # ""
        /\ oerr[c] = "TopologyError"

C8_CanceledWhileWaiting ==
    /\ \A c \in Callers :
          (opc[c] = "done" /\ runID[c] # 0 /\ doneFirst[c]) =>
              /\ oerr[c] = "ObservationTimeout"
              /\ observation[c] = NilObservation
              /\ runID[c] \in abandoned
    /\ abandoned \cap harvested = {}
    /\ \A c \in Callers :
          ~observation[c].nil =>
              /\ runID[c] \in harvested \ abandoned
              /\ runs[runID[c]] = "success"

\* A call was canceled while waiting; its run finished afterwards, with an
\* error, and a later call returned the observation of its own run.
C8_Witness ==
    \E c, d \in Callers :
        /\ opc[c] \in {"done", "idle"} /\ ~expiredAtCall[c]
        /\ oerr[c] = "ObservationTimeout"
        /\ runID[c] \in abandoned /\ runs[runID[c]] = "error"
        /\ opc[d] = "done" /\ runID[d] > runID[c]
        /\ observation[d] = Observation(3)

\* ---- C9
\* C9: calls of Observe in flight together work on distinct runs and share
\* nothing: a call goes on to the results only of its own run, once that run
\* is terminal; an observation comes from the call's own run; and a call
\* returns ObservationTimeout only when its own context is done, so that
\* canceling one call's context ends no other call.
C9_IndependentCalls ==
    /\ \A c, d \in Callers :
          (c # d /\ runID[c] # 0) => runID[c] # runID[d]
    /\ \A c \in Callers :
          /\ opc[c] = "resultsForRun" => Terminal(runID[c])
          /\ ~observation[c].nil =>
                runID[c] \in harvested /\ runs[runID[c]] = "success"
          /\ oerr[c] = "ObservationTimeout" => ctx[c] = "done"

\* The call for the new round has returned its observation while the stale
\* call, its context live, still waits for its own run.
C9_Witness ==
    /\ opc["round1"] = "awaitRun" /\ ctx["round1"] = "live"
    /\ runs[runID["round1"]] = "running"
    /\ opc["round2"] = "done" /\ ~observation["round2"].nil
    /\ runID["round2"] > runID["round1"]


\* ---- C11
\* The results a finished call fetched are one result without an execution
\* error, carrying the value v.
SingleValue(c, v) ==
    /\ opc[c] = "done"
    /\ Fetched(c)
    /\ Len(results[c]) = 1
    /\ results[c][1].Error = ""
    /\ results[c][1].Value = v

\* C11: an Observe call whose run gave exactly one result without an execution
\* error returns, with a nil error, the result's value as a big integer: 3
\* for "3", the integer part 2 for "2.5"; when the value does not convert to a
\* decimal it returns a CoercionError and no observation.
C11_NumericObservation ==
    \A c \in Callers :
        /\ SingleValue(c, "3")
             => observation[c] = [nil |-> FALSE, val |-> 3] /\ oerr[c] = ""
        /\ SingleValue(c, "2.5")
             => observation[c] = [nil |-> FALSE, val |-> 2] /\ oerr[c] = ""
        /\ SingleValue(c, "abc")
             => observation[c].nil /\ oerr[c] = "CoercionError"

\* One call has returned 3 for the value "3" while the other has returned a
\* CoercionError for a value that is no number.
C11_Witness ==
    \E c, d \in Callers :
        /\ SingleValue(c, "3") /\ observation[c] = [nil |-> FALSE, val |-> 3]
        /\ SingleValue(d, "abc") /\ oerr[d] = "CoercionError"

\* ---- C12
FailureKinds ==
    {"PipelineStartError", "ObservationTimeout", "TopologyError",
     "task failed", "CoercionError"}

\* C12: a failed Observe call leaves the data source usable. Every failure is
\* handed to the caller as an error value with no observation, a caller whose
\* call has returned can call again, and a call that follows a failed call of
\* whichever kind and whose run gave the single result "3" returns 3 with a
\* nil error all the same.
C12_FailuresNotFatal ==
    \A c \in Callers :
        /\ opc[c] = "idle" => ENABLED CallObserve(c)
        /\ opc[c] = "done" => ENABLED Returned(c)
        /\ opc[c] = "done" /\ oerr[c] # "" => observation[c].nil
        /\ previous[c] \in FailureKinds /\ SingleValue(c, "3")
             => observation[c] = Observation(3) /\ oerr[c] = ""

\* A call that followed a call failed on its results has returned the
\* observation 3, while the other caller's call has just timed out.
C12_Witness ==
    \E c, d \in Callers :
        /\ previous[c] \in {"TopologyError", "task failed", "CoercionError"}
        /\ SingleValue(c, "3")
        /\ observation[c] = Observation(3)
        /\ oerr[c] = ""
        /\ opc[d] = "done" /\ oerr[d] = "ObservationTimeout"

\* ---- C14
\* C14: an Observe call makes at most three calls on the pipeline runner, in
\* this order.  CreateRun comes first and once only, for the data source's own
\* job ID and with nil run-time inputs; AwaitRun comes only after CreateRun
\* returned no error, and for the run ID CreateRun returned to this call;
\* ResultsForRun comes only after AwaitRun returned no error, and for that
\* same run ID.  A call that returned an error is the last the Observe call
\* made, and Observe has returned with an error; Observe returns without
\* error only after all three.
C14_ThreeStepProtocol ==
    \A c \in Callers :
        LET p == protocol[c]
        IN  /\ Len(p) <= 3
            /\ opc[c] = "createRun" => p = <<>>
            /\ opc[c] = "awaitRun" => Len(p) = 1
            /\ opc[c] = "resultsForRun" => Len(p) = 2
            /\ Len(p) >= 1
                 => /\ p[1].op = "CreateRun"
                    /\ p[1].args = <<"job", "nil">>
            /\ Len(p) >= 2
                 => /\ p[2].op = "AwaitRun"
                    /\ p[1].err = "" /\ p[1].ret # 0
                    /\ p[2].args = <<p[1].ret>>
            /\ Len(p) >= 3
                 => /\ p[3].op = "ResultsForRun"
                    /\ p[2].err = ""
                    /\ p[3].args = <<p[1].ret>>
            /\ \A i \in 1..Len(p) :
                 p[i].err # ""
                     => /\ i = Len(p)
                        /\ opc[c] \in {"done", "idle"}
                        /\ oerr[c] # ""
            /\ opc[c] = "done" /\ oerr[c] = ""
                 => Len(p) = 3 /\ \A i \in 1..3 : p[i].err = ""
            /\ \A d \in Callers :
                 d # c /\ Len(p) >= 2 /\ Len(protocol[d]) >= 2
                     => p[2].args # protocol[d][2].args

\* One call has made all three calls without error, while the other ended on
\* the error of AwaitRun and never called ResultsForRun.
C14_Witness ==
    \E c, d \in Callers :
        /\ opc[c] = "done"
        /\ Len(protocol[c]) = 3
        /\ \A i \in 1..3 : protocol[c][i].err = ""
        /\ opc[d] = "done"
        /\ Len(protocol[d]) = 2
        /\ protocol[d][2].err # ""

\* ---- C15
\* CreateRun, AwaitRun and ResultsForRun of the call have all returned no error.
AllThreeSucceeded(c) ==
    /\ Len(protocol[c]) = 3
    /\ \A i \in 1..3 : protocol[c][i].err = ""

\* C15: an Observe call that has returned has returned either an observation
\* or an error, never both and never neither.  It has returned an observation
\* exactly when all three calls on the runner succeeded, there is exactly one
\* result, the result carries no execution error and its value is a number.
\* A single result that carries an execution error fails the call with that
\* error and no observation, even though its value is the number "3".
C15_ObservationXorError ==
    \A c \in Callers :
        opc[c] = "done"
            => /\ observation[c].nil <=> oerr[c] # ""
               /\ ~observation[c].nil
                    <=> /\ AllThreeSucceeded(c)
                        /\ Len(results[c]) = 1
                        /\ results[c][1].Error = ""
                        /\ results[c][1].Value \in {"3", "2.5"}
               /\ /\ AllThreeSucceeded(c)
                  /\ Len(results[c]) = 1
                  /\ results[c][1].Error # ""
                  => observation[c].nil /\ oerr[c] = results[c][1].Error

\* A call has failed with the execution error of its single result, whose
\* value is the number "3".
C15_Witness ==
    \E c \in Callers :
        /\ opc[c] = "done"
        /\ AllThreeSucceeded(c)
        /\ results[c] = <<[Value |-> "3", Error |-> "task failed"]>>
        /\ observation[c].nil
        /\ oerr[c] = "task failed"

====
